---- MODULE Spec2Model ----
(***************************************************************************)
(* Model of jennov-offloader.py (class JennovOffloader): the paginated     *)
(* recording query, the response parser, the per-recording download and    *)
(* delete steps of process_camera and the camera loop of start.            *)
(*                                                                         *)
(* The program is single-threaded and every HTTP call blocks, so a request *)
(* and the handling of its answer are one step. The camera (and the local  *)
(* filesystem) is the environment: it may answer any request in any of the *)
(* ways enumerated below.                                                  *)
(***************************************************************************)
EXTENDS Integers, Sequences, FiniteSets, TLC

\* ------------------------------------------------------------------ bounds

\* The largest number of item elements the camera puts in one query answer.
MaxPage == 2

\* ------------------------------------------------------ program constants

\* max_skip_count of query_recordings. The source sets 24 * 60; the model
\* scales it down so that a camera which never returns an empty page reaches
\* it. The program reads it only in the condition of the while loop
\* (loop_continues).
max_skip_count == 2

\* ------------------------------------------------------------- input data

None == "None"

\* self.cameras as init_config builds it, in configuration order.
CameraNames == <<"cam1", "cam2">>

cameras ==
  [c \in {"cam1", "cam2"} |->
     [id |-> IF c = "cam1" THEN "id1" ELSE "id2",
      url |-> IF c = "cam1" THEN "http://10.0.0.1" ELSE "http://10.0.0.2"]]

\* Remote file paths the camera may report.
Paths == {"/sd/a.mp4", "/sd/b.mp4"}

\* start_time attribute texts in the format '%Y-%m-%d %H:%M:%S'.
TimeTexts == {"2024-01-01 00:01:00", "2024-01-01 00:02:00"}

\* datetime.strptime(text, '%Y-%m-%d %H:%M:%S') on the texts above.
strptime(text) ==
  IF text = "2024-01-01 00:01:00"
    THEN [Y |-> 2024, M |-> 1, D |-> 1, h |-> 0, m |-> 1, s |-> 0]
    ELSE [Y |-> 2024, M |-> 1, D |-> 1, h |-> 0, m |-> 2, s |-> 0]

\* datetime.strftime('%Y%m%d') and datetime.strftime('%H%M%S'), as numbers.
strftime_date(dt) == dt.Y * 10000 + dt.M * 100 + dt.D
strftime_time(dt) == dt.h * 10000 + dt.m * 100 + dt.s

\* The item elements a query answer may hold: well-formed ones (two files of
\* the same second, one file of another second), and one for each way an
\* attribute can be absent or unparsable.
GoodItems ==
  { [filepath |-> "/sd/a.mp4", filesize |-> "1024", start_time |-> "2024-01-01 00:01:00"],
    [filepath |-> "/sd/b.mp4", filesize |-> "1024", start_time |-> "2024-01-01 00:01:00"],
    [filepath |-> "/sd/a.mp4", filesize |-> "1024", start_time |-> "2024-01-01 00:02:00"] }

DefectItems ==
  { [filepath |-> None,        filesize |-> "1024", start_time |-> "2024-01-01 00:01:00"],
    [filepath |-> "/sd/a.mp4", filesize |-> None,   start_time |-> "2024-01-01 00:01:00"],
    [filepath |-> "/sd/a.mp4", filesize |-> "abc",  start_time |-> "2024-01-01 00:01:00"],
    [filepath |-> "/sd/a.mp4", filesize |-> "1024", start_time |-> None],
    [filepath |-> "/sd/a.mp4", filesize |-> "1024", start_time |-> "garbage"] }

RawItems == GoodItems \cup DefectItems

Pages == UNION { [1..n -> RawItems] : n \in 0..MaxPage }

\* What the camera may answer to a query: a connection error, a non-success
\* status, a success whose body is not XML, or a success with item elements.
QueryAnswers ==
  { [kind |-> k, items |-> <<>>] : k \in {"connerr", "httperr", "malformed"} }
    \cup { [kind |-> "page", items |-> p] : p \in Pages }

\* The answer holds an item element whose filesize or start_time is absent
\* or not in its format.
has_defect(answer) ==
  \E i \in DOMAIN answer.items :
    \/ answer.items[i].filesize \in {None, "abc"}
    \/ answer.items[i].start_time \in {None, "garbage"}

\* How one download can go: os.makedirs fails, the GET fails to connect, the
\* GET returns a non-success status, open() fails, a write fails, the stream
\* breaks while it is read, or everything succeeds.
DownloadOutcomes ==
  {"mkdirerr", "connerr", "httperr", "openerr", "writeerr", "streamerr", "ok"}

\* What the camera may answer to a delete: a connection error (status 0
\* stands for no status) or a status.
DeleteAnswers ==
  { [kind |-> "connerr", status |-> 0] }
    \cup { [kind |-> "status", status |-> s] : s \in {200, 202, 204, 404, 500} }

NoResp == [kind |-> "none"]

\* ------------------------------------------------------------------ state

VARIABLES
  args,        \* self.args: query_only, download_only, delete_only
  selected,    \* selected_cameras of start
  ci,          \* position of start's camera loop in selected
  pc,          \* where the program is
  skip_count,  \* query_recordings: the cursor
  recordings,  \* query_recordings / process_camera: the recordings list
  ri,          \* position of process_camera's loop in recordings
  resp,        \* the camera's answer to the last delete request, until the
               \* loop goes on
  queryLog,    \* the query requests of the current query_recordings call:
               \* cursor sent, kind of answer (and whether it held a
               \* defective item), what post_query did with it
  requests,    \* the download and delete requests of the current camera
  camLog,      \* the process_camera calls of start and how each ended
  files,       \* the local files of the camera being processed (no path
               \* of one camera is a path of another): path -> content
  ret          \* what delete_recording returned, until the loop goes on

vars ==
  <<args, selected, ci, pc, skip_count, recordings, ri, resp, queryLog,
    requests, camLog, files, ret>>

\* ------------------------------------------------------- pure functions

\* int(item.get('filesize')): None is a TypeError, a non-number a ValueError.
int_exc(text) ==
  IF text = None THEN "TypeError"
  ELSE IF text = "1024" THEN None
  ELSE "ValueError"

int_value(text) == IF text = "1024" THEN 1024 ELSE 0

\* datetime.strptime(item.get('start_time'), ...): None is a TypeError, a
\* text in another format a ValueError.
strptime_exc(text) ==
  IF text = None THEN "TypeError"
  ELSE IF text \in TimeTexts THEN None
  ELSE "ValueError"

\* The body of the for loop of parse_query_response for one item element:
\* the exception it raises (None when it raises none).
item_exc(item) ==
  IF int_exc(item.filesize) # None THEN int_exc(item.filesize)
  ELSE strptime_exc(item.start_time)

\* The recording dictionary built from one item element that raised nothing.
item_recording(item) ==
  [filepath   |-> item.filepath,
   filesize   |-> int_value(item.filesize),
   start_time |-> strptime(item.start_time)]

\* The for loop with a defective item element skipped instead of raising.
RECURSIVE parse_items_skipping(_, _)
parse_items_skipping(items, acc) ==
  IF items = <<>> THEN [exc |-> None, value |-> acc]
  ELSE IF item_exc(Head(items)) # None
    THEN parse_items_skipping(Tail(items), acc)
    ELSE parse_items_skipping(Tail(items),
                              Append(acc, item_recording(Head(items))))

\* The for loop of parse_query_response: items in order, stopping at the
\* first item whose conversion raises (the exception is not caught there).
RECURSIVE parse_items(_, _)
parse_items(items, acc) ==
  IF items = <<>> THEN [exc |-> None, value |-> acc]
  ELSE IF item_exc(Head(items)) # None
    THEN [exc |-> item_exc(Head(items)), value |-> <<>>]
    ELSE parse_items(Tail(items), Append(acc, item_recording(Head(items))))

\* parse_query_response without its except clause: ET.ParseError propagates.
parse_query_response_uncaught(answer) ==
  IF answer.kind = "malformed" THEN [exc |-> "ParseError", value |-> <<>>]
  ELSE parse_items(answer.items, <<>>)

\* parse_query_response(response.text): ET.ParseError is caught and gives the
\* (still empty) list; any other exception leaves the function.
parse_query_response(answer) ==
  IF answer.kind = "malformed" THEN [exc |-> None, value |-> <<>>]
  ELSE parse_items(answer.items, <<>>)

\* post_query without its except clause: the transport failure propagates.
post_query_uncaught(answer) ==
  IF answer.kind \in {"connerr", "httperr"}
    THEN [exc |-> "RequestException", value |-> <<>>]
    ELSE parse_query_response(answer)

\* post_query: requests.RequestException (connection error, raise_for_status)
\* is caught and gives []; the parser's result or exception passes through.
post_query(answer) ==
  IF answer.kind \in {"connerr", "httperr"} THEN [exc |-> None, value |-> <<>>]
  ELSE parse_query_response(answer)

\* The loop ended as soon as the cursor reaches the ceiling.
loop_continues_below(skip) == skip < max_skip_count

\* The loop condition with the ceiling one further.
loop_continues_one_more(skip) == skip <= max_skip_count + 1

\* The condition of the while loop of query_recordings.
loop_continues(skip) == skip <= max_skip_count

\* The new page put in front of the list.
extend_in_front(list, response) == response \o list

\* recordings.extend(response)
extend(list, response) == list \o response

\* The recordings handed over after every page instead of after the loop.
after_page_streaming(skip) == "recording"

\* query_recordings after a non-empty page: the loop goes round again, or
\* ends and the list is returned.
after_page(skip) == IF loop_continues(skip) THEN "query" ELSE "queried"

\* The cursor left where it is.
advance_never(skip, response) == skip

\* The cursor advanced by pages instead of records.
advance_by_one(skip, response) == skip + 1

\* skip_count += len(response)
advance(skip, response) == skip + Len(response)

\* get_selected_cameras: the list, or the ValueError it raises.
get_selected_cameras(list_cameras, all_cameras, camera) ==
  IF list_cameras THEN [exc |-> None, value |-> <<>>]
  ELSE IF all_cameras THEN [exc |-> None, value |-> CameraNames]
  ELSE IF camera # None
    THEN IF camera \notin DOMAIN cameras
           THEN [exc |-> "ValueError", value |-> <<>>]
           ELSE [exc |-> None, value |-> <<camera>>]
  ELSE IF Len(CameraNames) = 1
    THEN [exc |-> None, value |-> <<CameraNames[1]>>]
    ELSE [exc |-> "ValueError", value |-> <<>>]

\* The local file named after the remote file as well.
local_path_per_file(camera_name, recording) ==
  [dir  |-> cameras[camera_name].id,
   name |-> <<camera_name, strftime_date(recording.start_time),
              strftime_time(recording.start_time), recording.filepath>>]

\* local_path of download_recording:
\* <download_dir>/<camera id>/<camera name>-<YYYYMMDD>-<HHMMSS>.mp4
local_path(camera_name, recording) ==
  [dir  |-> cameras[camera_name].id,
   name |-> <<camera_name, strftime_date(recording.start_time),
              strftime_time(recording.start_time)>>]

\* The recordings the parser can return, and the local paths they can have.
Recordings ==
  { item_recording(item) : item \in { i \in RawItems : item_exc(i) = None } }

LocalPaths == { local_path(c, r) : c \in DOMAIN cameras, r \in Recordings }

\* query_only honoured only when no other mode flag is set.
reports_only_alone(a) == a.query_only /\ ~a.download_only /\ ~a.delete_only

\* process_camera, "if self.args.query_only": the recording is reported and
\* the loop continues.
reports_only(a) == a.query_only

\* download_only taking precedence over delete_only.
wants_download_first(a) == a.download_only \/ ~a.delete_only

\* process_camera, "if not self.args.delete_only": a download is attempted.
wants_download(a) == ~a.delete_only

\* The delete attempted whatever download_only says.
wants_delete_always(a) == TRUE

\* process_camera, "if not self.args.download_only": a delete is attempted.
wants_delete(a) == ~a.download_only

\* The result of download_recording ignored.
skip_after_download_never(ok) == FALSE

\* process_camera, "if not self.download_recording(...): continue".
skip_after_download(ok) == ~ok

\* download_recording's return value for an outcome that raises nothing out
\* of it: only the complete transfer returns True.
download_result(outcome) == outcome = "ok"

\* The exception that leaves download_recording (None when none does): only
\* requests.RequestException is caught, OSError is not.
download_exc(outcome) ==
  IF outcome \in {"mkdirerr", "openerr", "writeerr"} THEN "OSError" ELSE None

\* The local file opened for appending ('ab') instead of 'wb'.
download_file_appending(outcome, old, filepath) ==
  IF outcome = "ok" THEN (IF old = "absent" THEN filepath ELSE "appended")
  ELSE IF outcome \in {"writeerr", "streamerr"} THEN "partial"
  ELSE old

\* What is at local_path after download_recording, given what was there.
download_file(outcome, old, filepath) ==
  IF outcome = "ok" THEN filepath
  ELSE IF outcome \in {"writeerr", "streamerr"} THEN "partial"
  ELSE old

\* Any 2xx status taken for success.
delete_result_any_2xx(answer) ==
  answer.kind = "status" /\ answer.status \in {200, 202, 204}

\* delete_recording's return value: status_code == 202; a RequestException
\* is caught and gives False.
delete_result(answer) == answer.kind = "status" /\ answer.status = 202

\* ---------------------------------------------------------------- actions

Modes == [query_only : BOOLEAN, download_only : BOOLEAN, delete_only : BOOLEAN]

Init ==
  /\ args \in Modes
  /\ selected = <<>>
  /\ ci = 1
  /\ pc = "start"
  /\ skip_count = 0
  /\ recordings = <<>>
  /\ ri = 1
  /\ resp = NoResp
  /\ queryLog = <<>>
  /\ requests = <<>>
  /\ camLog = <<>>
  /\ files = [p \in LocalPaths |-> "absent"]
  /\ ret = None

\* The current camera_name of start's loop.
camera_name == selected[ci]

\* start without its try/except: an exception out of process_camera ends
\* the run.
Leave_uncaught(outcome) ==
  /\ camLog' = Append(camLog, [camera |-> camera_name, outcome |-> outcome])
  /\ IF outcome = "returned"
       THEN ci' = ci + 1 /\ pc' = "loop"
       ELSE ci' = ci /\ pc' = "crashed"

\* process_camera is left, by return ("returned") or by an exception, which
\* start catches ("except Exception ... continue"): the loop goes on.
Leave(outcome) ==
  /\ camLog' = Append(camLog, [camera |-> camera_name, outcome |-> outcome])
  /\ ci' = ci + 1
  /\ pc' = "loop"

\* start, up to the camera loop: get_selected_cameras with the arguments of
\* the command line. Its ValueError is not caught; an empty list returns.
Start ==
  /\ pc = "start"
  /\ \E list_cameras \in BOOLEAN, all_cameras \in BOOLEAN,
        camera \in {None, "cam1", "cam2", "cam9"} :
       LET r == get_selected_cameras(list_cameras, all_cameras, camera) IN
         IF r.exc # None THEN pc' = "crashed" /\ selected' = selected
         ELSE IF r.value = <<>> THEN pc' = "exited" /\ selected' = selected
         ELSE pc' = "loop" /\ selected' = r.value
  /\ UNCHANGED <<args, ci, skip_count, recordings, ri, resp, queryLog,
                 requests, camLog, files, ret>>

\* start's for loop: the next camera enters process_camera and
\* query_recordings (skip_count = 0, recordings = []), or the loop is over.
\* The locals of the process_camera call that was left are gone; the logs
\* and files start anew, they are kept for one camera at a time.
CameraLoop ==
  /\ pc = "loop"
  /\ pc' = IF ci > Len(selected) THEN "done"
           ELSE IF loop_continues(0) THEN "query" ELSE "queried"
  /\ skip_count' = 0
  /\ recordings' = <<>>
  /\ ri' = 1
  /\ queryLog' = <<>>
  /\ requests' = <<>>
  /\ files' = [p \in LocalPaths |-> "absent"]
  /\ UNCHANGED <<args, selected, ci, resp, camLog, ret>>

\* query_recordings, one iteration of the while loop: the query with the
\* current cursor is posted and the camera answers; post_query's result ends
\* the loop when empty, else extends recordings and advances the cursor; an
\* exception out of the parser leaves query_recordings and process_camera.
QueryPage ==
  /\ pc = "query"
  /\ \E answer \in QueryAnswers :
       LET r == post_query(answer) IN
         /\ queryLog' = Append(queryLog,
              [cursor   |-> skip_count,
               answer   |-> answer.kind,
               defect   |-> has_defect(answer),
               state    |-> IF r.exc # None THEN "raised" ELSE "returned",
               returned |-> r.value])
         /\ IF r.exc # None
              THEN Leave(r.exc) /\ UNCHANGED <<skip_count, recordings>>
            ELSE IF r.value = <<>>
              THEN pc' = "queried" /\ UNCHANGED <<skip_count, recordings, ci, camLog>>
            ELSE /\ recordings' = extend(recordings, r.value)
                 /\ skip_count' = advance(skip_count, r.value)
                 /\ pc' = after_page(skip_count')
                 /\ UNCHANGED <<ci, camLog>>
  /\ UNCHANGED <<args, selected, ri, resp, requests, files, ret>>

\* process_camera after the query: "if not recordings: return". The locals
\* of query_recordings other than the list it returned are gone.
CheckRecordings ==
  /\ pc = "queried"
  /\ IF recordings = <<>>
       THEN Leave("returned") /\ ri' = ri
       ELSE pc' = "recording" /\ ri' = 1 /\ UNCHANGED <<ci, camLog>>
  /\ skip_count' = 0
  /\ queryLog' = <<>>
  /\ UNCHANGED <<args, selected, recordings, resp, requests, files, ret>>

\* process_camera's for loop, up to the first request for the recording:
\* os.path.basename(None) raises TypeError; query_only reports and goes on.
\* What the last delete_recording returned is dropped.
NextRecording ==
  /\ pc = "recording"
  /\ IF ri > Len(recordings)
       THEN Leave("returned") /\ ri' = ri
     ELSE IF recordings[ri].filepath = None
       THEN Leave("TypeError") /\ ri' = ri
     ELSE IF reports_only(args)
       THEN ri' = ri + 1 /\ UNCHANGED <<pc, ci, camLog>>
     ELSE IF wants_download(args)
       THEN pc' = "download" /\ UNCHANGED <<ri, ci, camLog>>
     ELSE IF wants_delete(args)
       THEN pc' = "delete" /\ UNCHANGED <<ri, ci, camLog>>
     ELSE ri' = ri + 1 /\ UNCHANGED <<pc, ci, camLog>>
  /\ resp' = NoResp
  /\ ret' = None
  /\ UNCHANGED <<args, selected, skip_count, recordings, queryLog, requests,
                 files>>

\* download_recording, and process_camera's use of its result. os.makedirs
\* may raise OSError before any request is made; else the GET is made and
\* the transfer goes one of the ways of DownloadOutcomes. An OSError leaves
\* process_camera; failure skips the delete, success goes on to it.
DownloadRecording ==
  /\ pc = "download"
  /\ \E outcome \in DownloadOutcomes :
       LET path == local_path(camera_name, recordings[ri])
           ok   == download_result(outcome)
       IN
         IF outcome = "mkdirerr"
           THEN /\ Leave(download_exc(outcome))
                /\ UNCHANGED <<requests, files, ri>>
           ELSE /\ files' = [files EXCEPT ![path] =
                     download_file(outcome, files[path], recordings[ri].filepath)]
                /\ requests' = Append(requests,
                     [op |-> "download", idx |-> ri,
                      result |-> IF download_exc(outcome) # None THEN "raised"
                                 ELSE IF ok THEN "True" ELSE "False"])
                /\ IF download_exc(outcome) # None
                     THEN Leave(download_exc(outcome)) /\ ri' = ri
                   ELSE IF ~skip_after_download(ok) /\ wants_delete(args)
                     THEN pc' = "delete" /\ UNCHANGED <<ri, ci, camLog>>
                   ELSE pc' = "recording" /\ ri' = ri + 1 /\ UNCHANGED <<ci, camLog>>
  /\ UNCHANGED <<args, selected, skip_count, recordings, resp, queryLog, ret>>

\* delete_recording: the delete is posted and the camera answers (resp);
\* process_camera ignores the return value (ret) and goes on to the next
\* recording.
DeleteRecording ==
  /\ pc = "delete"
  /\ \E answer \in DeleteAnswers :
       /\ resp' = answer
       /\ ret' = IF delete_result(answer) THEN "True" ELSE "False"
  /\ requests' = Append(requests, [op |-> "delete", idx |-> ri, result |-> "done"])
  /\ ri' = ri + 1
  /\ pc' = "recording"
  /\ UNCHANGED <<args, selected, ci, skip_count, recordings, queryLog,
                 camLog, files>>

Next ==
  \/ Start
  \/ CameraLoop
  \/ QueryPage
  \/ CheckRecordings
  \/ NextRecording
  \/ DownloadRecording
  \/ DeleteRecording

Spec == Init /\ [][Next]_vars

\* The program is one thread that runs until start returns or raises.
FairSpec == Spec /\ WF_vars(Next)

\* ----------------------------------------------------------------- claims

DownloadAndDeleteMode ==
  ~args.query_only /\ ~args.download_only /\ ~args.delete_only

DeleteOnlyMode ==
  ~args.query_only /\ ~args.download_only /\ args.delete_only

DownloadOnlyMode ==
  ~args.query_only /\ args.download_only /\ ~args.delete_only

\* The download requests made so far for the recording at position i.
DownloadsOf(i) ==
  { k \in DOMAIN requests : requests[k].op = "download" /\ requests[k].idx = i }

\* The delete requests made so far for the recording at position i.
DeletesOf(i) ==
  { k \in DOMAIN requests : requests[k].op = "delete" /\ requests[k].idx = i }

\* The number of records the first n query requests returned.
RECURSIVE SumReturned(_, _)
SumReturned(log, n) ==
  IF n = 0 THEN 0 ELSE SumReturned(log, n - 1) + Len(log[n].returned)

\* The records the first n query requests returned, in order.
RECURSIVE Accumulated(_, _)
Accumulated(log, n) ==
  IF n = 0 THEN <<>> ELSE Accumulated(log, n - 1) \o log[n].returned

\* process_camera has been left after its recordings loop had begun.
LeftProcessing ==
  /\ pc = "loop"
  /\ camLog # <<>>
  /\ queryLog = <<>>
  /\ recordings # <<>>

\* C1: in download-and-delete mode a delete request for a recording comes
\* only after a download request for that same recording that returned
\* True, and a recording whose download failed or raised gets no delete.
C1_DeleteOnlyAfterDownload ==
  DownloadAndDeleteMode =>
    \A j \in DOMAIN requests :
      requests[j].op = "delete" =>
        /\ \E k \in DownloadsOf(requests[j].idx) :
             k < j /\ requests[k].result = "True"
        /\ \A k \in DownloadsOf(requests[j].idx) : requests[k].result = "True"

\* A failed download of one recording, then a download and a delete of the
\* next one.
C1_Witness ==
  /\ DownloadAndDeleteMode
  /\ \E i \in DOMAIN recordings :
       /\ \E k \in DownloadsOf(i) : requests[k].result = "False"
       /\ DeletesOf(i) = {}
       /\ DeletesOf(i + 1) # {}

\* C2: within one query_recordings call the cursor of the k-th request is
\* the number of records requests 1..k-1 returned (0 for the first), so the
\* cursors never decrease.
C2_CursorIsRunningSum ==
  \A k \in DOMAIN queryLog :
    /\ queryLog[k].cursor = SumReturned(queryLog, k - 1)
    /\ k > 1 => queryLog[k - 1].cursor <= queryLog[k].cursor

\* Three requests, the third after two non-empty pages.
C2_Witness ==
  /\ Len(queryLog) = 3
  /\ queryLog[3].cursor = 2
  /\ queryLog[2].cursor = 1

\* C3 as stated: query_recordings makes at most max_skip_count requests.
C3_AtMostMaxCursorRequests == Len(queryLog) <= max_skip_count

\* C3, amended: query_recordings makes at most max_skip_count + 1 requests,
\* whatever the camera answers; a request is made only with a cursor of at
\* most max_skip_count, and every request but the first follows a page that
\* moved the cursor forward.
C3_AtMostMaxCursorPlusOneRequests ==
  /\ Len(queryLog) <= max_skip_count + 1
  /\ \A k \in DOMAIN queryLog :
       /\ queryLog[k].cursor <= max_skip_count
       /\ k > 1 => queryLog[k - 1].cursor < queryLog[k].cursor
  /\ pc = "query" => loop_continues(skip_count)

\* The camera never returned an empty page and the ceiling ended the loop
\* after max_skip_count + 1 requests.
C3_Witness ==
  /\ pc = "queried"
  /\ Len(queryLog) = max_skip_count + 1
  /\ \A k \in DOMAIN queryLog : queryLog[k].returned # <<>>
  /\ skip_count > max_skip_count

\* C4: when the camera answers a query with a transport failure, post_query
\* returns (nothing is raised), query_recordings returns the recordings of
\* the earlier pages in order, and that request is the last of the call.
C4_TransportFailureReturnsPartial ==
  \A k \in DOMAIN queryLog :
    (queryLog[k].answer \in {"connerr", "httperr"} /\ queryLog[k].state # "pending") =>
      /\ queryLog[k].state = "returned"
      /\ k = Len(queryLog)
      /\ pc = "queried"
      /\ recordings = Accumulated(queryLog, k - 1)

\* The third request fails after two pages of one record each.
C4_Witness ==
  /\ pc = "queried"
  /\ Len(queryLog) = 3
  /\ queryLog[3].answer = "httperr"
  /\ Len(recordings) = 2
  /\ recordings[1] # recordings[2]

\* C5 as stated: no answer makes parse_query_response raise.
C5_ParserNeverRaises ==
  \A k \in DOMAIN queryLog : queryLog[k].state # "raised"

\* C6 as stated: when the recordings of a camera all have a filepath, its
\* recordings loop is not left before it has come to the last recording,
\* whatever happened to the earlier ones.
C6_FailureNeverAbortsTheRest ==
  (LeftProcessing /\ \A i \in DOMAIN recordings : recordings[i].filepath # None)
    => ri >= Len(recordings)

\* C7: start calls process_camera once for each selected camera, in order,
\* whether or not an earlier call raised; once the loop has begun the run
\* does not end before "completed" and can always take its next step.
C7_EveryCameraProcessedOnce ==
  /\ pc \notin {"start", "exited", "crashed"} =>
       /\ Len(camLog) = ci - 1
       /\ Len(camLog) <= Len(selected)
       /\ \A i \in DOMAIN camLog : camLog[i].camera = selected[i]
  /\ pc = "done" => Len(camLog) = Len(selected)
  /\ selected # <<>> => pc \notin {"exited", "crashed"}
  /\ pc \notin {"done", "exited", "crashed"} => ENABLED Next

\* The first camera raised, the second was processed and the run completed.
C7_Witness ==
  /\ pc = "done"
  /\ Len(camLog) = 2
  /\ camLog[1].outcome = "OSError"
  /\ camLog[2].outcome = "returned"

\* C8: delete_recording returns True exactly when the delete was answered
\* with status 202, and False for every other status and for a transport
\* exception.
C8_DeleteSuccessIff202 ==
  /\ resp # NoResp <=> ret # None
  /\ resp # NoResp =>
       /\ ret \in {"True", "False"}
       /\ ret = "True" <=> (resp.kind = "status" /\ resp.status = 202)

\* The second delete of a camera was answered 202 and has returned True.
C8_Witness ==
  /\ ret = "True"
  /\ resp.status = 202
  /\ DeletesOf(1) # {}
  /\ DeletesOf(2) # {}
  /\ requests[Len(requests)].idx = 2

\* C9 as stated: in delete-only mode no download request is made, and when
\* the camera is done every recording the query returned (at least every
\* one that has a filepath to delete) has had its delete request.
C9_DeleteOnlyDeletesAll ==
  DeleteOnlyMode =>
    /\ \A k \in DOMAIN requests : requests[k].op # "download"
    /\ LeftProcessing =>
         \A i \in DOMAIN recordings :
           recordings[i].filepath # None => DeletesOf(i) # {}

\* C10: in download-only mode no delete request is made, whatever the
\* downloads return.
C10_DownloadOnlyNeverDeletes ==
  DownloadOnlyMode => \A k \in DOMAIN requests : requests[k].op # "delete"

\* A download has succeeded in download-only mode and the loop has gone on
\* to the next recording.
C10_Witness ==
  /\ DownloadOnlyMode
  /\ pc = "recording"
  /\ ri = 2
  /\ \E k \in DownloadsOf(1) : requests[k].result = "True"

\* The process_camera call of the current camera is in its recordings loop.
InRecordingsLoop == pc \in {"recording", "download", "delete"}

\* No local file of the current camera exists.
NoLocalFile == \A p \in LocalPaths : files[p] = "absent"

\* C11: in query-only mode no download and no delete request is made for
\* any recording, whatever download_only and delete_only say, and no local
\* file is created or changed; only queries reach the camera.
C11_QueryOnlySendsOnlyQueries ==
  args.query_only =>
    /\ requests = <<>>
    /\ NoLocalFile
    /\ pc \notin {"download", "delete"}

\* Query-only together with both other flags: two recordings were reported
\* and the loop went past them.
C11_Witness ==
  /\ args.query_only /\ args.download_only /\ args.delete_only
  /\ pc = "recording"
  /\ Len(recordings) >= 2
  /\ ri = 3

\* The query requests of the log that returned records.
NonEmptyPages(log) == { k \in DOMAIN log : log[k].returned # <<>> }

\* C12: when query_recordings has returned and every answer was a page and
\* the pages held at most max_skip_count records together, the last answer
\* was an empty page, all k answers before it were non-empty, the list
\* returned is exactly their records in order, and k + 1 requests were made.
C12_EmptyPageEndsTheWindow ==
  ( /\ pc = "queried"
    /\ \A k \in DOMAIN queryLog : queryLog[k].answer = "page"
    /\ SumReturned(queryLog, Len(queryLog)) <= max_skip_count ) =>
      LET n == Len(queryLog) IN
        /\ n >= 1
        /\ queryLog[n].returned = <<>>
        /\ queryLog[n].cursor = Len(recordings)
        /\ recordings = Accumulated(queryLog, n - 1)
        /\ n = Cardinality(NonEmptyPages(queryLog)) + 1

\* Two records at cursor 0, then no record at cursor 2: two recordings
\* returned after two requests.
C12_Witness ==
  /\ pc = "queried"
  /\ Len(queryLog) = 2
  /\ queryLog[1].cursor = 0 /\ Len(queryLog[1].returned) = 2
  /\ queryLog[2].cursor = 2 /\ queryLog[2].answer = "page"
  /\ queryLog[2].returned = <<>>
  /\ Len(recordings) = 2

\* C13: an answer whose body is not well-formed XML is handled as an empty
\* page: nothing is raised, it is the last request of the window, the
\* records of the earlier pages are the list returned; and when it is the
\* answer to the first request, the list is empty and process_camera
\* returns without any download or delete request.
C13_MalformedIsEmptyPage ==
  /\ [](\A k \in DOMAIN queryLog :
          queryLog[k].answer = "malformed" =>
            /\ queryLog[k].state = "returned"
            /\ queryLog[k].returned = <<>>
            /\ k = Len(queryLog)
            /\ pc = "queried"
            /\ recordings = Accumulated(queryLog, k - 1)
            /\ requests = <<>>)
  /\ [][ ( /\ pc = "queried"
           /\ queryLog # <<>>
           /\ queryLog[1].answer = "malformed" ) =>
             /\ recordings = <<>>
             /\ pc' = "loop"
             /\ ci' = ci + 1
             /\ camLog' = Append(camLog, [camera |-> selected[ci],
                                          outcome |-> "returned"])
             /\ requests' = <<>>
             /\ files' = files ]_vars

\* A page of records, then a body that is not XML: the window is over and
\* the records of the page are returned.
C13_Witness ==
  /\ pc = "queried"
  /\ Len(queryLog) = 2
  /\ queryLog[2].answer = "malformed"
  /\ recordings # <<>>
  /\ recordings = queryLog[1].returned

\* The download requests made so far whose local path is p.
WritesTo(p) ==
  { k \in DOMAIN requests :
      /\ requests[k].op = "download"
      /\ local_path(camera_name, recordings[requests[k].idx]) = p }

LastOf(S) == CHOOSE k \in S : \A j \in S : j <= k

\* The step is a download of the current recording that returned True.
SuccessfulDownload ==
  /\ pc = "download"
  /\ Len(requests') = Len(requests) + 1
  /\ requests'[Len(requests')].result = "True"

\* C14: a download targets the local path of its camera and start_time and
\* overwrites what is there: a path no download went to has no file, and a
\* path only successful downloads went to holds the content of the last of
\* them; and a successful download of a recording whose content is already
\* at its local path leaves the local files as they are (idempotence).
C14_DownloadOverwrites ==
  /\ [](InRecordingsLoop =>
          IF requests = <<>> THEN NoLocalFile
          ELSE \A p \in LocalPaths :
                 IF WritesTo(p) = {} THEN files[p] = "absent"
                 ELSE (\A k \in WritesTo(p) : requests[k].result = "True") =>
                        files[p] =
                          recordings[requests[LastOf(WritesTo(p))].idx].filepath)
  /\ [][ ( /\ SuccessfulDownload
           /\ files[local_path(camera_name, recordings[ri])]
                = recordings[ri].filepath ) =>
             files' = files ]_vars

\* The same recording twice in the list, both downloads successful: one
\* local file, with that recording's content.
C14_Witness ==
  /\ pc = "recording"
  /\ \E i, j \in DOMAIN recordings :
       /\ i < j
       /\ recordings[i] = recordings[j]
       /\ \E k \in DownloadsOf(i) : requests[k].result = "True"
       /\ \E k \in DownloadsOf(j) : requests[k].result = "True"
       /\ files[local_path(camera_name, recordings[i])] = recordings[i].filepath
       /\ Cardinality({ p \in LocalPaths : files[p] # "absent" }) = 1

\* C15: the list query_recordings builds is the pages' records in page
\* order and in the order within each page, process_camera leaves it as it
\* is, and the download and delete requests follow it: positions never go
\* back, and the requests of one position are its download, then its
\* delete, all made before any request of the next position.
C15_RequestsInDeviceOrder ==
  /\ []( /\ pc \in {"query", "queried"} =>
              recordings = Accumulated(queryLog, Len(queryLog))
         /\ \A k \in DOMAIN requests :
              /\ requests[k].idx \in DOMAIN recordings
              /\ requests[k].idx <= ri
         /\ \A j, k \in DOMAIN requests :
              j < k =>
                /\ requests[j].idx <= requests[k].idx
                /\ requests[j].idx = requests[k].idx =>
                     (requests[j].op = "download" /\ requests[k].op = "delete") )
  /\ [][InRecordingsLoop => recordings' = recordings]_vars

\* Two different recordings: download and delete of the first, then the
\* download of the second.
C15_Witness ==
  /\ Len(recordings) >= 2
  /\ recordings[1] # recordings[2]
  /\ Len(requests) >= 3
  /\ requests[1].op = "download" /\ requests[1].idx = 1
  /\ requests[2].op = "delete" /\ requests[2].idx = 1
  /\ requests[3].op = "download" /\ requests[3].idx = 2

\* C16: for each camera every query request comes before every download
\* and delete request: while query_recordings is at work or has just
\* returned no download or delete has been requested, and once one has
\* been requested the program is past the query and posts no further one.
C16_QueriesBeforeTransfers ==
  /\ pc \in {"query", "queried"} => requests = <<>>
  /\ queryLog # <<>> => requests = <<>>
  /\ requests # <<>> => pc \in {"recording", "download", "delete", "loop"}
  /\ pc \in {"download", "delete"} => queryLog = <<>>

\* Three recordings, which took two pages, and then the first request.
C16_Witness ==
  /\ Len(recordings) = 3
  /\ Len(requests) = 1
  /\ requests[1].idx = 1

\* C17: no request is retried: each position of the list gets at most one
\* download and at most one delete request, and within one query window no
\* cursor is sent twice (each request after the first follows a non-empty
\* page).
C17_NoRetries ==
  /\ \A j, k \in DOMAIN requests :
       (j < k /\ requests[j].idx = requests[k].idx) =>
         requests[j].op # requests[k].op
  /\ \A j, k \in DOMAIN queryLog :
       j < k => (queryLog[j].cursor # queryLog[k].cursor
                 /\ queryLog[j].returned # <<>>)

\* The download of the first recording failed, the delete of the second
\* one failed, and the loop is at the third position.
C17_Witness ==
  /\ pc = "recording"
  /\ ri = 3
  /\ Len(requests) = 3
  /\ requests[1].op = "download" /\ requests[1].result = "False"
  /\ DeletesOf(2) # {}
  /\ ret = "False"

\* C18 as stated: an item element that lacks any attribute the parser
\* reads (filepath included), or whose filesize or start_time does not
\* parse, makes the parser raise: no page with such an item is returned,
\* and a camera that sent one gets no download or delete request.
C18_AnyDefectiveItemSkipsCamera ==
  /\ \A k \in DOMAIN queryLog :
       \A i \in DOMAIN queryLog[k].returned :
         queryLog[k].returned[i].filepath # None
  /\ (\E i \in DOMAIN recordings : recordings[i].filepath = None) =>
       requests = <<>>

\* C18, amended: a page with an item element whose filesize or start_time
\* is absent or does not parse, and no other page, makes the parser raise;
\* the exception leaves query_recordings and process_camera, the records
\* accumulated are never processed (no download and no delete request for
\* the camera), and start goes on with the next camera.
C18_ConversionFailureSkipsCamera ==
  \A k \in DOMAIN queryLog :
    /\ queryLog[k].defect <=> queryLog[k].state = "raised"
    /\ queryLog[k].state = "raised" =>
         /\ k = Len(queryLog)
         /\ queryLog[k].returned = <<>>
         /\ pc = "loop"
         /\ requests = <<>>
         /\ NoLocalFile
         /\ Len(camLog) = ci - 1
         /\ camLog[ci - 1].camera = selected[ci - 1]
         /\ camLog[ci - 1].outcome \in {"TypeError", "ValueError"}
         /\ ENABLED CameraLoop

\* A page of records, then a page with a defective item: the first of two
\* cameras is left with records accumulated and the second is to come.
C18_Witness ==
  /\ pc = "loop"
  /\ Len(selected) = 2
  /\ ci = 2
  /\ Len(queryLog) = 2
  /\ queryLog[2].state = "raised"
  /\ recordings # <<>>

\* The local files of the current camera that exist.
LocalFiles == { p \in LocalPaths : files[p] # "absent" }

\* C19: the local path depends on the camera and the start_time only: two
\* recordings of one camera with the same start_time have the same local
\* path, and when both were downloaded successfully (and no other download
\* went to that path) the file holds the later one's content; a successful
\* download puts its recording's content at that path and changes no other
\* local file.
C19_SameSecondSamePath ==
  /\ [](InRecordingsLoop =>
          \A i, j \in DOMAIN recordings :
            (i < j /\ recordings[i].start_time = recordings[j].start_time) =>
              /\ local_path(camera_name, recordings[i])
                   = local_path(camera_name, recordings[j])
              /\ ( /\ DownloadsOf(j) # {}
                   /\ DownloadsOf(i) # {}
                   /\ \A k \in WritesTo(local_path(camera_name, recordings[j])) :
                        requests[k].result = "True" /\ requests[k].idx <= j ) =>
                     files[local_path(camera_name, recordings[j])]
                       = recordings[j].filepath)
  /\ [][ SuccessfulDownload =>
           \A p \in LocalPaths :
             files'[p] = IF p = local_path(camera_name, recordings[ri])
                           THEN recordings[ri].filepath
                           ELSE files[p] ]_vars

\* Download-and-delete mode, two different remote files of the same second:
\* both downloaded, a delete requested for both (the second one accepted),
\* and one local file, with the second one's content.
C19_Witness ==
  /\ DownloadAndDeleteMode
  /\ pc = "recording"
  /\ Len(recordings) >= 2
  /\ recordings[1].filepath # recordings[2].filepath
  /\ recordings[1].filepath # None
  /\ recordings[1].start_time = recordings[2].start_time
  /\ DeletesOf(1) # {}
  /\ DeletesOf(2) # {}
  /\ ri = 3
  /\ ret = "True"
  /\ LocalFiles = {local_path(camera_name, recordings[2])}
  /\ files[local_path(camera_name, recordings[2])] = recordings[2].filepath

\* C20: with download_only and delete_only both set and query_only not,
\* no download and no delete request is made for any recording and no
\* local file is written; only queries reach the camera.
C20_BothOnlyFlagsDoNothing ==
  (~args.query_only /\ args.download_only /\ args.delete_only) =>
    /\ requests = <<>>
    /\ NoLocalFile
    /\ pc \notin {"download", "delete"}

\* Both flags set: the loop went past two recordings.
C20_Witness ==
  /\ ~args.query_only /\ args.download_only /\ args.delete_only
  /\ pc = "recording"
  /\ Len(recordings) >= 2
  /\ ri = 3

====
